---- MODULE Spec2Model ----
(***************************************************************************)
(* Model of backend/services/price_client.py: PriceClient with its query   *)
(* normalisation, IQR outlier filter, one-hour cache, primary              *)
(* (MercadoLibre) request and secondary (web search) fallback; and of      *)
(* backend/services/evaluator.py: EvaluatorService.evaluate with the two   *)
(* AI clients and _build_response over the models of models/schemas.py.    *)
(* The /api/evaluate route of api/routes/evaluate.py answers for evaluate,  *)
(* and _parse_json of the Groq and Claude clients reads the reply text.     *)
(*                                                                         *)
(* Strings are sequences of one-character strings.  The clock counts       *)
(* half-hours, so the one-hour TTL is two ticks.                           *)
(***************************************************************************)
EXTENDS Integers, Sequences, FiniteSets, TLC

VARIABLES
    now,            \* datetime.now(), in half-hours
    cache,          \* self._cache: key -> [ts, data]
    pc,             \* per call of fetch_market_data: "idle", "awaiting", "done"
    product_name,   \* the call's argument
    clean_q,        \* the call's local clean_q (search term and cache key)
    cached,         \* the call's local cached: <<>> or <<entry>> read from the cache
    prices,         \* the call's local prices, as handed to _filter_outliers
    prices_clean,   \* the call's local prices_clean, the statistics' input
    result,         \* how the call ended: returned a value, or raised
    trace,          \* history: the sources the call contacted, with the query sent
    response,       \* history: what the primary source answered
    web_results,    \* history: <<>> or <<what the web search answered>>
    hit,            \* history: the call returned at the cache-hit line
    startedAt,      \* history: the clock when the call read the cache
    endedAt,        \* history: the clock when the call ended
    last,           \* history: an earlier completed call of this client
    settings,       \* get_settings(): the provider and whether its key is set
    epc,            \* evaluate: "idle", "fetching", "normalizing", "done", "responded"
    request,        \* evaluate's argument
    market_data,    \* evaluate's local market_data
    ai_result,      \* evaluate's local ai_result
    evaluation,     \* how evaluate ended: returned a response, or raised
    events,         \* history: the collaborator calls evaluate made, in order
    api_reply,      \* history: <<>> or <<what the provider's API did>> when called
    http,           \* what the /api/evaluate route answered
    input,          \* the argument of the pure function under study
    output          \* <<>> or <<its value>>

vars == <<now, cache, pc, product_name, clean_q, cached, prices, prices_clean,
          result, trace, response, web_results, hit, startedAt, endedAt, last,
          settings, epc, request, market_data, ai_result, evaluation, events,
          api_reply, http, input, output>>

callVars == <<pc, product_name, clean_q, cached, prices, prices_clean, result,
              trace, response, web_results, hit, startedAt, endedAt>>

evalVars == <<settings, epc, request, market_data, ai_result, evaluation, events,
              api_reply, http>>

-----------------------------------------------------------------------------
(* Bounds *)

MaxTime == 3
MaxItems == 5
MaxResults == 2
MaxTokens == 3
MaxLen == 5

(* Program constants *)

CACHE_TTL == 2
FLOOR == 5000
SAMPLE_SIZE == 5
MIN_QUERY_LEN == 3
MIN_SAMPLE == 4

-----------------------------------------------------------------------------
(* Sequences *)

RECURSIVE Insert(_, _)
Insert(x, s) ==
    IF s = <<>> THEN <<x>>
    ELSE IF x <= Head(s) THEN <<x>> \o s
    ELSE <<Head(s)>> \o Insert(x, Tail(s))

RECURSIVE sorted(_)
sorted(s) == IF s = <<>> THEN <<>> ELSE Insert(Head(s), sorted(Tail(s)))

RECURSIVE Sum(_)
Sum(s) == IF s = <<>> THEN 0 ELSE Head(s) + Sum(Tail(s))

Take(s, k) == SubSeq(s, 1, IF Len(s) < k THEN Len(s) ELSE k)

\* int(x) for the rational num/den with den > 0: truncation towards zero
Trunc(num, den) == IF num >= 0 THEN num \div den ELSE -((-num) \div den)

\* the sequences over S of length at most k
SeqsUpTo(S, k) == UNION {[1..n -> S] : n \in 0..k}

-----------------------------------------------------------------------------
(* _filter_outliers *)

Q1Index(n) == n \div 4
Q3Index_median(n) == n \div 2

Q3Index(n) == (3 * n) \div 4

InBounds_inward(x, q1, q3) ==
    LET iqr == q3 - q1
    IN  2 * q1 + 3 * iqr <= 2 * x /\ 2 * x <= 2 * q3 - 3 * iqr

InBounds_strict(x, q1, q3) ==
    LET iqr == q3 - q1
    IN  2 * q1 - 3 * iqr < 2 * x /\ 2 * x < 2 * q3 + 3 * iqr

\* lower_bound <= x <= upper_bound with the bounds q1 - 1.5*iqr and
\* q3 + 1.5*iqr, doubled to stay in the integers: the floats are exact for
\* prices of magnitude below 2^52 (InBoundsWide is the test from 2^53 on)
InBounds(x, q1, q3) ==
    LET iqr == q3 - q1
    IN  2 * q1 - 3 * iqr <= 2 * x /\ 2 * x <= 2 * q3 + 3 * iqr

AboveFloor(s) == SelectSeq(s, LAMBDA p : p > FLOOR)

IqrFiltered(ps) ==
    LET sorted_prices == sorted(ps)
        n  == Len(sorted_prices)
        q1 == sorted_prices[Q1Index(n) + 1]
        q3 == sorted_prices[Q3Index(n) + 1]
    IN  SelectSeq(ps, LAMBDA x : InBounds(x, q1, q3))

filter_outliers(ps) ==
    IF Len(ps) < MIN_SAMPLE THEN ps
    ELSE LET filtered == IqrFiltered(ps)
         IN  IF filtered # <<>> THEN filtered ELSE AboveFloor(ps)

-----------------------------------------------------------------------------
(* _filter_outliers on prices from 2^53 on, where a float no longer holds   *)
(* every integer.  A price 2^53 + o is held as its offset o >= 0; a float   *)
(* near 2^53 is held as twice its offset, so that halves are integers.      *)
(* Floats in [2^53, 2^54) are 2 apart, those in [2^52, 2^53) are 1 apart.   *)

\* the multiple of step nearest to v, a tie going to the even multiple
RoundTiesEven(v, step) ==
    LET lo == step * (v \div step)
        hi == lo + step
    IN  IF v - lo < hi - v THEN lo
        ELSE IF v - lo > hi - v THEN hi
        ELSE IF (lo \div step) % 2 = 0 THEN lo ELSE hi

\* the float nearest to the real number 2^53 + v/2
Float64(v) == IF v >= 0 THEN RoundTiesEven(v, 4) ELSE RoundTiesEven(v, 2)

\* lower_bound <= x <= upper_bound, with q1 and q3 converted to float and
\* each difference and sum rounded
InBoundsWide(o, o1, o3) ==
    LET iqr == o3 - o1
        lower_bound == Float64(Float64(2 * o1) - 3 * iqr)
        upper_bound == Float64(Float64(2 * o3) + 3 * iqr)
    IN  lower_bound <= 2 * o /\ 2 * o <= upper_bound

IqrFilteredWide(os) ==
    LET sorted_prices == sorted(os)
        n  == Len(sorted_prices)
        q1 == sorted_prices[Q1Index(n) + 1]
        q3 == sorted_prices[Q3Index(n) + 1]
    IN  SelectSeq(os, LAMBDA x : InBoundsWide(x, q1, q3))

\* every price of the list is above 5000
filter_outliers_wide(os) ==
    IF Len(os) < MIN_SAMPLE THEN os
    ELSE LET filtered == IqrFilteredWide(os)
         IN  IF filtered # <<>> THEN filtered ELSE os

-----------------------------------------------------------------------------
(* _clean_query *)

stop_words == <<
    <<"v","e","n","d","o">>,
    <<"c","o","m","p","r","o">>,
    <<"b","u","s","c","o">>,
    <<"u","s","a","d","o">>,
    <<"n","u","e","v","o">>,
    <<"b","a","r","a","t","o">>,
    <<"o","f","e","r","t","a">>,
    <<"e","x","c","e","l","e","n","t","e">>,
    <<"e","s","t","a","d","o">>,
    <<"b","u","e","n">>,
    <<"p","e","r","m","u","t","o">> >>

Upper == {"B", "U", "E", "N", "T", "V"}
LowerOf == [c \in Upper |->
              CASE c = "B" -> "b" [] c = "U" -> "u" [] c = "E" -> "e"
                [] c = "N" -> "n" [] c = "T" -> "t" [] c = "V" -> "v"]
Letters == {"a", "b", "c", "d", "e", "f", "l", "m", "n", "o", "p", "r", "s",
            "t", "u", "v", "x"} \cup Upper
Digits == {"1", "3"}

\* str.lower(), character by character
lower(s) == [i \in 1..Len(s) |-> IF s[i] \in Upper THEN LowerOf[s[i]] ELSE s[i]]

IsSpace(c) == c \in {" ", "\t"}                         \* \s
IsAlnum(c) == c \in Letters \cup Digits                 \* str.isalnum()
IsWordChar(c) == IsAlnum(c) \/ c = "_"                  \* \w

\* \b at the gap before position i of s (between s[i-1] and s[i])
Boundary(s, i) ==
    LET before == i > 1 /\ IsWordChar(s[i - 1])
        after  == i <= Len(s) /\ IsWordChar(s[i])
    IN  before # after

\* r'\b' + word + r'\b' matches s at position i
MatchesAt(s, word, i) ==
    /\ i + Len(word) - 1 <= Len(s)
    /\ SubSeq(s, i, i + Len(word) - 1) = word
    /\ Boundary(s, i)
    /\ Boundary(s, i + Len(word))

\* re.sub(r'\b' + word + r'\b', '', s): the leftmost non-overlapping matches
RECURSIVE SubFrom(_, _, _)
SubFrom(s, word, i) ==
    IF i > Len(s) THEN <<>>
    ELSE IF MatchesAt(s, word, i) THEN SubFrom(s, word, i + Len(word))
    ELSE <<s[i]>> \o SubFrom(s, word, i + 1)

RemoveWord(s, word) == SubFrom(s, word, 1)

\* for word in stop_words: clean = re.sub(r'\b' + word + r'\b', '', clean)
RECURSIVE RemoveStopWords(_, _)
RemoveStopWords(s, k) ==
    IF k > Len(stop_words) THEN s
    ELSE RemoveStopWords(RemoveWord(s, stop_words[k]), k + 1)

\* re.sub(r'[^\w\s]', '', clean)
StripPunctuation(s) == SelectSeq(s, LAMBDA c : IsWordChar(c) \/ IsSpace(c))

\* " ".join(clean.split()): started = a word was emitted, gap = whitespace
\* was seen since
RECURSIVE Collapse(_, _, _)
Collapse(s, started, gap) ==
    IF s = <<>> THEN <<>>
    ELSE IF IsSpace(Head(s)) THEN Collapse(Tail(s), started, TRUE)
    ELSE (IF started /\ gap THEN <<" ">> ELSE <<>>) \o <<Head(s)>>
         \o Collapse(Tail(s), TRUE, FALSE)

JoinSplit(s) == Collapse(s, FALSE, FALSE)

clean_query(query) == JoinSplit(StripPunctuation(RemoveStopWords(lower(query), 1)))

SearchTerm_no_revert(query) == clean_query(query)

\* clean_q of fetch_market_data: the search term and the cache key
SearchTerm(query) ==
    LET cq == clean_query(query)
    IN  IF Len(cq) < MIN_QUERY_LEN THEN query ELSE cq

-----------------------------------------------------------------------------
(* Statistics *)

mean_int(ps) == Trunc(Sum(ps), Len(ps))        \* int(statistics.mean(ps))

median_int(ps) ==                               \* int(statistics.median(ps))
    LET data == sorted(ps)
        n == Len(data)
        i == n \div 2
    IN  IF n % 2 = 1 THEN data[i + 1] ELSE Trunc(data[i] + data[i + 1], 2)

seq_min(ps) == sorted(ps)[1]
seq_max(ps) == sorted(ps)[Len(ps)]

empty_stats ==
    [source |-> "N/A", count |-> 0, min |-> 0, max |-> 0, avg |-> 0,
     median |-> 0, error |-> "No data found or API error"]

\* the dict literal of both sources; sample_of is the list the sample is cut from
stats_dict(source, ps, sample_of, t) ==
    [source |-> source, count |-> Len(ps), min |-> seq_min(ps),
     max |-> seq_max(ps), avg |-> mean_int(ps), median |-> median_int(ps),
     prices_sample |-> Take(sorted(sample_of), SAMPLE_SIZE), timestamp |-> t]

PRIMARY == "MercadoLibre Chile (Used)"
SECONDARY == "Web Search (Backup)"

Return(v) == [kind |-> "return", value |-> v]
Raise == [kind |-> "raise", value |-> empty_stats]
NotEnded == [kind |-> "none", value |-> empty_stats]

-----------------------------------------------------------------------------
(* _search_web_backup: web is what DDGS().text did, [raises, results]; a    *)
(* result is [accessory, amounts]: whether title+body mentions funda,      *)
(* carcasa or mica, and the integers price_pattern finds in it, in order.  *)

KeepsAmount_inclusive(clean_price) == clean_price >= FLOOR

\* if clean_price > 5000: prices.append(clean_price)
KeepsAmount(clean_price) == clean_price > FLOOR

RECURSIVE web_prices(_)
web_prices(results) ==
    IF results = <<>> THEN <<>>
    ELSE LET r == Head(results)
         IN  (IF r.accessory THEN <<>> ELSE SelectSeq(r.amounts, KeepsAmount))
             \o web_prices(Tail(results))

web_prices_clean(ps) == IF ps # <<>> THEN filter_outliers(ps) ELSE <<>>

web_try(web, t) ==
    IF web.raises THEN Raise
    ELSE LET ps == web_prices(web.results)
             pcl == web_prices_clean(ps)
         IN  IF pcl = <<>> THEN Return(empty_stats)
             ELSE Return(stats_dict(SECONDARY, pcl, pcl, t))

web_except(c) == IF c.kind = "raise" THEN Return(empty_stats) ELSE c

search_web_backup(web, t) == web_except(web_try(web, t))

\* no web search was made
NoSearch == <<>>

\* what the call handed to _filter_outliers there, and what came back
web_locals(web) ==
    IF web.raises THEN [prices |-> <<>>, prices_clean |-> <<>>]
    ELSE [prices |-> web_prices(web.results),
          prices_clean |-> web_prices_clean(web_prices(web.results))]

-----------------------------------------------------------------------------
(* fetch_market_data *)

Callers == DOMAIN pc

IsFresh_inclusive(entry, t) == t - entry.ts <= CACHE_TTL

\* datetime.now() - ts < self._cache_ttl
IsFresh(entry, t) == t - entry.ts < CACHE_TTL

cache_get(key) == IF key \in DOMAIN cache THEN <<cache[key]>> ELSE <<>>

cache_put_forgotten(key, t, data) == cache

cache_put_evicting(key, t, data) == [k \in {key} |-> [ts |-> t, data |-> data]]

cache_put_sentinel(key, t, data) ==
    [k \in DOMAIN cache \cup {key} |->
        IF k = key THEN [ts |-> t, data |-> empty_stats] ELSE cache[k]]

\* self._cache[clean_q] = (datetime.now(), stats)
cache_put(key, t, data) ==
    [k \in DOMAIN cache \cup {key} |->
        IF k = key THEN [ts |-> t, data |-> data] ELSE cache[k]]

fetch_except_reraise(c) == c

\* except Exception as e: ... return self._empty_stats()
fetch_except(c) == IF c.kind = "raise" THEN Return(empty_stats) ELSE c

\* [item["price"] for item in items if item.get("currency_id") == "CLP"]
RECURSIVE primary_prices(_)
primary_prices(items) ==
    IF items = <<>> THEN <<>>
    ELSE (IF Head(items).currency_id = "CLP" THEN <<Head(items).price>> ELSE <<>>)
         \o primary_prices(Tail(items))

primary_prices_unfiltered(ps) == ps

\* prices_clean = self._filter_outliers(prices); if not prices_clean: prices_clean = prices
primary_prices_clean(ps) ==
    LET pcl == filter_outliers(ps)
    IN  IF pcl = <<>> THEN ps ELSE pcl

primary_stats(ps, t) == stats_dict(PRIMARY, primary_prices_clean(ps), ps, t)

\* await client.get(self.BASE_URL, params={"q": clean_q, ...}): one request
primary_request(key) == <<[src |-> "primary", q |-> key]>>

secondary_search_retried(key) ==
    <<[src |-> "secondary", q |-> key], [src |-> "secondary", q |-> key]>>

\* DDGS().text(f"{query} valor precio chile usado", ...): one search
secondary_search(key) == <<[src |-> "secondary", q |-> key]>>

\* the call p ends its try block with completion c
End(p, c, ps, pcl, contacted, answered, searched) ==
    /\ pc' = [pc EXCEPT ![p] = "done"]
    /\ result' = [result EXCEPT ![p] = fetch_except(c)]
    /\ prices' = [prices EXCEPT ![p] = ps]
    /\ prices_clean' = [prices_clean EXCEPT ![p] = pcl]
    /\ trace' = [trace EXCEPT ![p] = @ \o contacted]
    /\ response' = [response EXCEPT ![p] = answered]
    /\ endedAt' = [endedAt EXCEPT ![p] = now]
    /\ web_results' = [web_results EXCEPT ![p] = searched]
    /\ UNCHANGED <<now, product_name, clean_q, cached, hit, startedAt, last,
                   evalVars, input, output>>

\* lines 65-84: normalise, read the cache, return on a fresh entry or send
\* the request to the primary source
Call(p, q) ==
    /\ pc[p] = "idle"
    /\ LET key == SearchTerm(q)
           c == cache_get(key)
           fresh == c # <<>> /\ IsFresh(c[1], now)
       IN  /\ product_name' = [product_name EXCEPT ![p] = q]
           /\ clean_q' = [clean_q EXCEPT ![p] = key]
           /\ cached' = [cached EXCEPT ![p] = c]
           /\ startedAt' = [startedAt EXCEPT ![p] = now]
           /\ hit' = [hit EXCEPT ![p] = fresh]
           /\ IF fresh
              THEN /\ pc' = [pc EXCEPT ![p] = "done"]
                   /\ result' = [result EXCEPT ![p] = Return(c[1].data)]
                   /\ endedAt' = [endedAt EXCEPT ![p] = now]
                   /\ UNCHANGED trace
              ELSE /\ pc' = [pc EXCEPT ![p] = "awaiting"]
                   /\ trace' = [trace EXCEPT ![p] = primary_request(key)]
                   /\ UNCHANGED <<result, endedAt>>
    /\ UNCHANGED <<now, cache, prices, prices_clean, response, web_results,
                   last,
                   evalVars, input, output>>

\* client.get raises: connection error or timeout
TransportError(p) ==
    /\ pc[p] = "awaiting"
    /\ End(p, Raise, <<>>, <<>>, <<>>, "transport error", NoSearch)
    /\ UNCHANGED cache

\* status 403: return self._search_web_backup(clean_q)
Forbidden(p, web) ==
    /\ pc[p] = "awaiting"
    /\ End(p, search_web_backup(web, now), web_locals(web).prices,
           web_locals(web).prices_clean, secondary_search(clean_q[p]),
           "403", <<web>>)
    /\ UNCHANGED cache

\* any other error status (429, 500, ...): response.raise_for_status() raises
HttpError(p) ==
    /\ pc[p] = "awaiting"
    /\ End(p, Raise, <<>>, <<>>, <<>>, "error status", NoSearch)
    /\ UNCHANGED cache

\* status 200 with a body that is no JSON object of listings: response.json(),
\* data.get or item["price"] raises
MalformedBody(p) ==
    /\ pc[p] = "awaiting"
    /\ End(p, Raise, <<>>, <<>>, <<>>, "malformed body", NoSearch)
    /\ UNCHANGED cache

\* status 200, "results" missing or empty: return self._search_web_backup(clean_q)
NoResults(p, web) ==
    /\ pc[p] = "awaiting"
    /\ End(p, search_web_backup(web, now), web_locals(web).prices,
           web_locals(web).prices_clean, secondary_search(clean_q[p]),
           "no results", <<web>>)
    /\ UNCHANGED cache

\* status 200 with listings: lines 98-126
Listings(p, items) ==
    /\ pc[p] = "awaiting"
    /\ items # <<>>
    /\ LET ps == primary_prices(items)
       IN  IF ps = <<>>
           THEN /\ End(p, Return(empty_stats), ps, <<>>, <<>>, "no CLP listing", NoSearch)
                /\ UNCHANGED cache
           ELSE /\ End(p, Return(primary_stats(ps, now)), ps,
                       primary_prices_clean(ps), <<>>, "listings", NoSearch)
                /\ cache' = cache_put(clean_q[p], now, primary_stats(ps, now))

Summary(p) ==
    [valid |-> TRUE, q |-> product_name[p], endedAt |-> endedAt[p],
     calls |-> Len(trace[p]), source |-> result[p].value.source,
     count |-> result[p].value.count]

NoCall == [valid |-> FALSE, q |-> <<>>, endedAt |-> 0, calls |-> 0,
           source |-> "N/A", count |-> 0]

\* the caller takes the value; the observer may remember this call
Returned(p) ==
    /\ pc[p] = "done"
    /\ pc' = [pc EXCEPT ![p] = "idle"]
    /\ product_name' = [product_name EXCEPT ![p] = <<>>]
    /\ clean_q' = [clean_q EXCEPT ![p] = <<>>]
    /\ cached' = [cached EXCEPT ![p] = <<>>]
    /\ prices' = [prices EXCEPT ![p] = <<>>]
    /\ prices_clean' = [prices_clean EXCEPT ![p] = <<>>]
    /\ result' = [result EXCEPT ![p] = NotEnded]
    /\ trace' = [trace EXCEPT ![p] = <<>>]
    /\ response' = [response EXCEPT ![p] = "none"]
    /\ hit' = [hit EXCEPT ![p] = FALSE]
    /\ startedAt' = [startedAt EXCEPT ![p] = 0]
    /\ endedAt' = [endedAt EXCEPT ![p] = 0]
    /\ last' \in {last, Summary(p)}
    /\ web_results' = [web_results EXCEPT ![p] = NoSearch]
    /\ UNCHANGED <<now, cache, evalVars, input, output>>

Tick ==
    /\ now < MaxTime
    /\ now' = now + 1
    /\ UNCHANGED <<cache, callVars, last, evalVars, input, output>>

-----------------------------------------------------------------------------
(* Inputs *)

QA == <<"b","u","e","n"," ","t","v">>       \* cleans to "tv": too short, kept whole
QB == <<"T","V"," ","b","o","x","!">>       \* cleans to "tv box"
QC == <<"t","v"," ","b","o","x">>           \* cleans to itself
Queries == {QA, QB, QC}

Item(price, currency_id) == [price |-> price, currency_id |-> currency_id]
Items == {Item(0, "CLP"), Item(6000, "CLP"), Item(350000, "CLP"), Item(300, "USD")}
Bodies == SeqsUpTo(Items, MaxItems) \ {<<>>}
FewBodies == {<<Item(300, "USD")>>, <<Item(6000, "CLP")>>}

WebAmounts == {FLOOR, 6000, 350000}
WebResult(accessory, amounts) == [accessory |-> accessory, amounts |-> amounts]
\* a result's text holds up to two amounts
WebResults == {WebResult(a, m) : a \in BOOLEAN, m \in SeqsUpTo(WebAmounts, 2)}
Failed == [raises |-> TRUE, results |-> <<>>]
Found(results) == [raises |-> FALSE, results |-> results]
Webs == {Failed} \cup {Found(rs) : rs \in SeqsUpTo(WebResults, MaxResults)}
FewWebs == {Failed, Found(<<>>), Found(<<WebResult(FALSE, <<350000>>)>>)}

RECURSIVE Flatten(_)
Flatten(ts) == IF ts = <<>> THEN <<>> ELSE Head(ts) \o Flatten(Tail(ts))
Tokens == { <<"b","u","e","n">>, <<"B","U","E","N">>, <<"b","u">>, <<"e","n">>,
            <<"-">>, <<"_">>, <<" ">>, <<"t","v">> }
TokenQueries == {Flatten(ts) : ts \in SeqsUpTo(Tokens, MaxTokens)}

FilterValues == {-3, 0, 1, 10, 6000}
PriceLists == SeqsUpTo(FilterValues, MaxLen)

-----------------------------------------------------------------------------
(* The judgment payload: JSON values as Python holds them.  t is the type  *)
(* ("null", "int", "float", "str", "list", "dict"); a number is n/d with d *)
(* one of 1, 10, 100; s is a str's characters, l a list's elements, m a    *)
(* dict as a function from its keys.                                       *)

NoDict == [k \in {} |-> 0]
Val(t, n, d, s, l, m) == [t |-> t, n |-> n, d |-> d, s |-> s, l |-> l, m |-> m]
PyNone == Val("null", 0, 1, <<>>, <<>>, NoDict)
PyInt(n) == Val("int", n, 1, <<>>, <<>>, NoDict)
PyFloat(n, d) == Val("float", n, d, <<>>, <<>>, NoDict)
PyStr(s) == Val("str", 0, 1, s, <<>>, NoDict)
PyList(l) == Val("list", 0, 1, <<>>, l, NoDict)
PyDict(m) == Val("dict", 0, 1, <<>>, <<>>, m)

\* bool(v)
Truthy(v) ==
    CASE v.t = "null" -> FALSE
      [] v.t \in {"int", "float"} -> v.n # 0
      [] v.t = "str" -> v.s # <<>>
      [] v.t = "list" -> v.l # <<>>
      [] v.t = "dict" -> DOMAIN v.m # {}

\* v or default
Or(v, default) == IF Truthy(v) THEN v ELSE default

\* m.get(key, default) and m.get(key)
get(m, key, default) == IF key \in DOMAIN m THEN m[key] ELSE default
get1(m, key) == get(m, key, PyNone)

\* d[key] = v and del d[key] on a copy
Put(m, key, v) == [k \in DOMAIN m \cup {key} |-> IF k = key THEN v ELSE m[k]]
Drop(m, key) == [k \in DOMAIN m \ {key} |-> m[k]]

IsNumber(v) == v.t \in {"int", "float"}

\* a number in hundredths
Hundredths(v) == v.n * (100 \div v.d)

\* how a function ended, with the log records it emitted
Returns(v) == [kind |-> "return", value |-> v, exc |-> "", log |-> <<>>]
Raises(exc) == [kind |-> "raise", value |-> <<>>, exc |-> exc, log |-> <<>>]

\* the first step that raised, or the last step
FirstRaise(steps) ==
    LET raised == {i \in 1..Len(steps) : steps[i].kind = "raise"}
    IN  IF raised = {} THEN steps[Len(steps)]
        ELSE steps[CHOOSE i \in raised : \A j \in raised : i <= j]

-----------------------------------------------------------------------------
(* models/schemas.py.  A float field of a model instance is held in        *)
(* hundredths.                                                             *)

Celulares == <<"C","e","l","u","l","a","r","e","s">>
Otro == <<"O","t","r","o">>
Categoria ==
    {Celulares,
     <<"C","o","n","s","o","l","a","s">>,
     <<"H","e","r","r","a","m","i","e","n","t","a","s">>,
     <<"C","o","m","p","u","t","a","c","i","o","n">>,    \* its last o carries an accent
     <<"F","i","t","n","e","s","s">>,
     <<"B","i","c","i","c","l","e","t","a","s">>,
     <<"M","o","t","o","c","i","c","l","e","t","a","s">>,
     Otro}

COMPRAR_YA == <<"C","O","M","P","R","A","R","_","Y","A">>
COMPRAR == <<"C","O","M","P","R","A","R">>
NEGOCIAR == <<"N","E","G","O","C","I","A","R">>
PASAR == <<"P","A","S","A","R">>
ALERTA_RIESGO == <<"A","L","E","R","T","A","_","R","I","E","S","G","O">>
Recomendacion == {COMPRAR_YA, COMPRAR, NEGOCIAR, PASAR, ALERTA_RIESGO}

\* Recomendacion(value): the member with that value, or ValueError
Recomendacion_call(v) ==
    IF v.t = "str" /\ v.s \in Recomendacion THEN Returns(v.s)
    ELSE Raises("ValueError")

\* Recomendacion.from_fuzzy(value): the class defines no such attribute
from_fuzzy(v) == Raises("AttributeError")

\* field validation; the payloads hold no float for an int field and no
\* number for a str field
is_int(v) == v.t = "int"
is_str(v) == v.t = "str"
in_range(v, ge, le) == IsNumber(v) /\ ge * v.d <= v.n /\ v.n <= le * v.d

Clasificacion(categoria, producto_identificado, condicion_inferida, confianza) ==
    IF /\ categoria.t = "str" /\ categoria.s \in Categoria
       /\ is_str(producto_identificado)
       /\ is_str(condicion_inferida)
       /\ in_range(confianza, 0, 1)
    THEN Returns([categoria |-> categoria.s,
                  producto_identificado |-> producto_identificado.s,
                  condicion_inferida |-> condicion_inferida.s,
                  confianza |-> Hundredths(confianza)])
    ELSE Raises("ValidationError")

\* the arguments in the order of the fields: precio_publicado,
\* precio_referencia_nuevo, precio_referencia_usado, descuento_vs_nuevo,
\* descuento_vs_usado, precio_max_compra
AnalisisPrecio(pub, nuevo, usado, dnuevo, dusado, maxc) ==
    IF /\ is_int(pub) /\ is_int(nuevo) /\ is_int(usado)
       /\ IsNumber(dnuevo) /\ IsNumber(dusado)
       /\ is_int(maxc)
    THEN Returns([precio_publicado |-> pub.n,
                  precio_referencia_nuevo |-> nuevo.n,
                  precio_referencia_usado |-> usado.n,
                  descuento_vs_nuevo |-> Hundredths(dnuevo),
                  descuento_vs_usado |-> Hundredths(dusado),
                  precio_max_compra |-> maxc.n])
    ELSE Raises("ValidationError")

\* the arguments in the order of the fields: score_descuento,
\* score_liquidez, score_condicion, score_vendedor, score_margen, score_total
Evaluacion(sd, sl, sc, sv, sm, st) ==
    IF \A v \in {sd, sl, sc, sv, sm, st} : in_range(v, 0, 10)
    THEN Returns([score_descuento |-> Hundredths(sd),
                  score_liquidez |-> Hundredths(sl),
                  score_condicion |-> Hundredths(sc),
                  score_vendedor |-> Hundredths(sv),
                  score_margen |-> Hundredths(sm),
                  score_total |-> Hundredths(st)])
    ELSE Raises("ValidationError")

\* the arguments in the order of the fields: precio_venta_esperado,
\* margen_bruto, margen_porcentaje, tiempo_venta_dias, liquidez
Proyeccion(venta, margen, pct, dias, liquidez) ==
    IF /\ is_int(venta) /\ is_int(margen)
       /\ IsNumber(pct)
       /\ is_str(dias) /\ is_str(liquidez)
    THEN Returns([precio_venta_esperado |-> venta.n,
                  margen_bruto |-> margen.n,
                  margen_porcentaje |-> Hundredths(pct),
                  tiempo_venta_dias |-> dias.s,
                  liquidez |-> liquidez.s])
    ELSE Raises("ValidationError")

\* decision is a member of Recomendacion already
RecomendacionDetalle(decision, confianza, razonamiento, acciones_sugeridas) ==
    IF /\ in_range(confianza, 0, 1)
       /\ is_str(razonamiento)
       /\ acciones_sugeridas.t = "list"
    THEN Returns([decision |-> decision,
                  confianza |-> Hundredths(confianza),
                  razonamiento |-> razonamiento.s,
                  acciones_sugeridas |-> acciones_sugeridas.l])
    ELSE Raises("ValidationError")

\* models is the five nested instances, signals the three lists, displays
\* the three strs, each in the order of the fields
EvaluateResponse(models, signals, displays) ==
    IF \A i \in 1..Len(signals) : signals[i].t = "list"
    THEN Returns([clasificacion |-> models[1],
                  analisis_precio |-> models[2],
                  evaluacion |-> models[3],
                  proyeccion |-> models[4],
                  senales_positivas |-> signals[1].l,
                  senales_negativas |-> signals[2].l,
                  alertas |-> signals[3].l,
                  recomendacion |-> models[5],
                  score_display |-> displays[1],
                  decision_display |-> displays[2],
                  margen_display |-> displays[3]])
    ELSE Raises("ValidationError")

-----------------------------------------------------------------------------
(* EvaluatorService._build_response *)

DigitChar(k) == <<"0","1","2","3","4","5","6","7","8","9">>[k + 1]

\* str(n)
RECURSIVE Decimal(_)
Decimal(n) ==
    IF n < 0 THEN <<"-">> \o Decimal(-n)
    ELSE IF n < 10 THEN <<DigitChar(n)>>
    ELSE Decimal(n \div 10) \o <<DigitChar(n % 10)>>

\* f"{n:,}": groups of three digits
RECURSIVE Grouped(_)
Grouped(n) ==
    IF n < 0 THEN <<"-">> \o Grouped(-n)
    ELSE IF n < 1000 THEN Decimal(n)
    ELSE Grouped(n \div 1000)
         \o <<",", DigitChar((n % 1000) \div 100), DigitChar((n % 100) \div 10),
              DigitChar(n % 10)>>

\* f"{score:.1f}" for a number of at most one decimal
format_1f(v) ==
    LET tenths == v.n * (10 \div v.d)
        mag == IF tenths < 0 THEN -tenths ELSE tenths
    IN  (IF tenths < 0 THEN <<"-">> ELSE <<>>)
        \o Decimal(mag \div 10) \o <<".", DigitChar(mag % 10)>>

\* f"{score:.1f}/10"
score_display_of(score) ==
    IF IsNumber(score) THEN Returns(format_1f(score) \o <<"/","1","0">>)
    ELSE Raises("TypeError")

\* decision_icons.get(decision, QUESTION); an icon is one element
decision_icons(decision) ==
    CASE decision = COMPRAR_YA -> "FIRE"
      [] decision = COMPRAR -> "CHECK"
      [] decision = NEGOCIAR -> "WARNING"
      [] decision = PASAR -> "CROSS"
      [] decision = ALERTA_RIESGO -> "SIREN"
      [] OTHER -> "QUESTION"

\* s.replace('_', ' ')
replace_underscores(s) == [i \in 1..Len(s) |-> IF s[i] = "_" THEN " " ELSE s[i]]

\* f"{decision_icons.get(decision, '?')} {decision.replace('_', ' ')}"
decision_display_of(decision) ==
    IF decision.t = "str"
    THEN Returns(<<decision_icons(decision.s), " ">> \o replace_underscores(decision.s))
    ELSE Raises("AttributeError")

\* f"${margen:,} ({margen_pct*100:.0f}%)" for an int margen and a number
\* margen_pct of at most two decimals
margen_display_of(margen, margen_pct) ==
    IF margen.t = "int" /\ IsNumber(margen_pct)
    THEN Returns(<<"$">> \o Grouped(margen.n) \o <<" ", "(">>
                 \o Decimal(Hundredths(margen_pct)) \o <<"%", ")">>)
    ELSE Raises("TypeError")

\* lines 122-124: except Exception: logger.warning(...); NEGOCIAR
resolve_except(c) ==
    IF c.kind = "raise" THEN [Returns(NEGOCIAR) EXCEPT !.log = <<"warning">>] ELSE c

\* lines 114-124: the member for decision, with the log records emitted
resolve_decision(decision) ==
    LET direct == Recomendacion_call(decision)
        fuzzy == from_fuzzy(decision)
    IN  resolve_except(
            IF direct.kind = "return" THEN direct
            ELSE IF fuzzy.kind = "return"
                 THEN [fuzzy EXCEPT !.log = <<"info">>]
                 ELSE fuzzy)

\* section.get(key) of a section that may be no dict
section_get(section, key) == get1(section.m, key)

build_response(ai) ==
    LET clasif == get(ai, "clasificacion", PyDict(NoDict))
        precio == get(ai, "analisis_precio", PyDict(NoDict))
        eval_data == get(ai, "evaluacion", PyDict(NoDict))
        proy == get(ai, "proyeccion", PyDict(NoDict))
        rec == get(ai, "recomendacion", PyDict(NoDict))
    IN  IF eval_data.t # "dict" \/ rec.t # "dict" \/ proy.t # "dict"
        THEN Raises("AttributeError")                      \* lines 101-104
        ELSE
        LET score == get(eval_data.m, "score_total", PyInt(0))
            decision == get(rec.m, "decision", PyStr(PASAR))
            margen == get(proy.m, "margen_bruto", PyInt(0))
            margen_pct == get(proy.m, "margen_porcentaje", PyInt(0))
            resolved == resolve_decision(decision)
            c1 == IF clasif.t # "dict" THEN Raises("AttributeError")
                  ELSE Clasificacion(
                         Or(section_get(clasif, "categoria"), PyStr(Otro)),
                         Or(section_get(clasif, "producto_identificado"), PyStr(<<>>)),
                         Or(section_get(clasif, "condicion_inferida"),
                            PyStr(<<"B","u","e","n","o">>)),
                         Or(section_get(clasif, "confianza"), PyFloat(5, 10)))
            c2 == IF precio.t # "dict" THEN Raises("AttributeError")
                  ELSE AnalisisPrecio(
                         Or(section_get(precio, "precio_publicado"), PyInt(0)),
                         Or(section_get(precio, "precio_referencia_nuevo"), PyInt(0)),
                         Or(section_get(precio, "precio_referencia_usado"), PyInt(0)),
                         Or(section_get(precio, "descuento_vs_nuevo"), PyFloat(0, 10)),
                         Or(section_get(precio, "descuento_vs_usado"), PyFloat(0, 10)),
                         Or(section_get(precio, "precio_max_compra"), PyInt(0)))
            c3 == Evaluacion(
                         Or(section_get(eval_data, "score_descuento"), PyFloat(0, 10)),
                         Or(section_get(eval_data, "score_liquidez"), PyFloat(0, 10)),
                         Or(section_get(eval_data, "score_condicion"), PyFloat(0, 10)),
                         Or(section_get(eval_data, "score_vendedor"), PyFloat(0, 10)),
                         Or(section_get(eval_data, "score_margen"), PyFloat(0, 10)),
                         score)
            c4 == Proyeccion(
                         Or(section_get(proy, "precio_venta_esperado"), PyInt(0)),
                         margen,
                         margen_pct,
                         Or(section_get(proy, "tiempo_venta_dias"), PyStr(<<"N","/","A">>)),
                         Or(section_get(proy, "liquidez"), PyStr(<<"m","e","d","i","a">>)))
            c5 == RecomendacionDetalle(
                         resolved.value,
                         Or(section_get(rec, "confianza"), PyFloat(5, 10)),
                         Or(section_get(rec, "razonamiento"), PyStr(<<>>)),
                         Or(section_get(rec, "acciones_sugeridas"), PyList(<<>>)))
            d1 == score_display_of(score)
            d2 == decision_display_of(decision)
            d3 == margen_display_of(margen, margen_pct)
            c6 == EvaluateResponse(
                         <<c1.value, c2.value, c3.value, c4.value, c5.value>>,
                         <<get(ai, "senales_positivas", PyList(<<>>)),
                           get(ai, "senales_negativas", PyList(<<>>)),
                           get(ai, "alertas", PyList(<<>>))>>,
                         <<d1.value, d2.value, d3.value>>)
        IN  [FirstRaise(<<resolved, c1, c2, c3, c4, c5, d1, d2, d3, c6>>)
                EXCEPT !.log = resolved.log]

-----------------------------------------------------------------------------
(* Judgment payloads *)

\* the leaves of the five sections, with the kind of value each holds
Schema ==
    [clasificacion |->
        [categoria |-> "categoria", producto_identificado |-> "text",
         condicion_inferida |-> "text", confianza |-> "confianza"],
     analisis_precio |->
        [precio_publicado |-> "int", precio_referencia_nuevo |-> "int",
         precio_referencia_usado |-> "int", descuento_vs_nuevo |-> "ratio",
         descuento_vs_usado |-> "ratio", precio_max_compra |-> "int"],
     evaluacion |->
        [score_descuento |-> "score", score_liquidez |-> "score",
         score_condicion |-> "score", score_vendedor |-> "score",
         score_margen |-> "score", score_total |-> "score"],
     proyeccion |->
        [precio_venta_esperado |-> "int", margen_bruto |-> "int",
         margen_porcentaje |-> "ratio", tiempo_venta_dias |-> "text",
         liquidez |-> "text"],
     recomendacion |->
        [decision |-> "decision", confianza |-> "confianza",
         razonamiento |-> "text", acciones_sugeridas |-> "list"]]

Sections == DOMAIN Schema
SignalLists == {"senales_positivas", "senales_negativas", "alertas"}

\* <<key>> is a top-level key, <<section, key>> a leaf
Paths == {<<k>> : k \in Sections \cup SignalLists}
         \cup UNION {{<<s, k>> : k \in DOMAIN Schema[s]} : s \in Sections}

KindOf(path) ==
    IF Len(path) = 2 THEN Schema[path[1]][path[2]]
    ELSE IF path[1] \in Sections THEN "section" ELSE "list"

COMPRAR_AHORA == <<"C","O","M","P","R","A","R"," ","A","H","O","R","A">>
banana == <<"b","a","n","a","n","a">>
RISK == <<"R","I","S","K">>
NEGOTIATE == <<"N","E","G","O","T","I","A","T","E">>
ERROR_CONFIG == <<"E","R","R","O","R","_","C","O","N","F","I","G">>

\* the values tried at a path, besides null and absent
Candidates(path) ==
    CASE KindOf(path) = "categoria" ->
            {PyStr(Otro), PyStr(<<"C","o","n","s","o","l","a","s">>),
             PyStr(<<"J","u","g","u","e","t","e","s">>), PyStr(<<>>)}
      [] KindOf(path) = "text" -> {PyStr(<<>>), PyStr(<<"x">>)}
      [] KindOf(path) = "confianza" ->
            {PyInt(0), PyFloat(0, 10), PyFloat(85, 100), PyInt(1), PyFloat(15, 10),
             PyFloat(-1, 10), PyStr(<<"x">>)}
      [] KindOf(path) = "int" ->
            {PyInt(0), PyInt(1234567), PyInt(-500), PyStr(<<"x">>)}
      [] KindOf(path) = "ratio" ->
            {PyInt(0), PyFloat(5, 100), PyFloat(-12, 100), PyStr(<<"x">>)}
      [] KindOf(path) = "score" ->
            {PyInt(0), PyFloat(0, 10), PyFloat(45, 10), PyInt(10), PyInt(11),
             PyFloat(-5, 10), PyStr(<<"x">>)}
      [] KindOf(path) = "decision" ->
            {PyStr(d) : d \in Recomendacion \cup
                {COMPRAR_AHORA, banana, <<"B","U","Y"," ","N","O","W">>, RISK,
                 NEGOTIATE, ERROR_CONFIG, <<"c","o","m","p","r","a","r">>, <<>>}}
      [] KindOf(path) = "list" -> {PyList(<<>>), PyList(<<"a">>)}
      [] KindOf(path) = "section" -> {PyDict(NoDict), PyStr(<<"x">>), PyList(<<>>)}

\* {}
EmptyPayload == NoDict

\* MOCK_CLAUDE_RESPONSE of the test, with shorter texts
CompletePayload ==
    [clasificacion |-> PyDict(
        [categoria |-> PyStr(Celulares), producto_identificado |-> PyStr(<<"i","P">>),
         condicion_inferida |-> PyStr(<<"E","x">>), confianza |-> PyFloat(95, 100)]),
     analisis_precio |-> PyDict(
        [precio_publicado |-> PyInt(350000), precio_referencia_nuevo |-> PyInt(650000),
         precio_referencia_usado |-> PyInt(425000),
         descuento_vs_nuevo |-> PyFloat(46, 100),
         descuento_vs_usado |-> PyFloat(17, 100), precio_max_compra |-> PyInt(325000)]),
     evaluacion |-> PyDict(
        [score_descuento |-> PyFloat(60, 10), score_liquidez |-> PyFloat(90, 10),
         score_condicion |-> PyFloat(80, 10), score_vendedor |-> PyFloat(70, 10),
         score_margen |-> PyFloat(80, 10), score_total |-> PyFloat(78, 10)]),
     proyeccion |-> PyDict(
        [precio_venta_esperado |-> PyInt(450000), margen_bruto |-> PyInt(100000),
         margen_porcentaje |-> PyFloat(28, 100),
         tiempo_venta_dias |-> PyStr(<<"2","-","5">>),
         liquidez |-> PyStr(<<"a","l","t","a">>)]),
     senales_positivas |-> PyList(<<"Precio competitivo", "Producto alta liquidez">>),
     senales_negativas |-> PyList(<<>>),
     alertas |-> PyList(<<>>),
     recomendacion |-> PyDict(
        [decision |-> PyStr(COMPRAR), confianza |-> PyFloat(9, 10),
         razonamiento |-> PyStr(<<"o","k">>),
         acciones_sugeridas |-> PyList(<<"Ofertar 320.000", "Revisar bateria">>)])]

\* GroqClient._get_mock_response(producto, precio)
get_mock_response(precio) ==
    [recomendacion |-> PyDict(
        [decision |-> PyStr(ERROR_CONFIG), razonamiento |-> PyStr(<<"n","o">>),
         acciones_sugeridas |-> PyList(<<"Verificar API Key">>)]),
     evaluacion |-> PyDict([score_total |-> PyInt(0)]),
     analisis_precio |-> PyDict([precio_publicado |-> PyInt(precio)]),
     proyeccion |-> PyDict(NoDict),
     alertas |-> PyList(<<"Error de configuracion API">>)]

PutAt(ai, path, v) ==
    IF Len(path) = 1 THEN Put(ai, path[1], v)
    ELSE Put(ai, path[1], PyDict(Put(get(ai, path[1], PyDict(NoDict)).m, path[2], v)))

DropAt(ai, path) ==
    IF Len(path) = 1 THEN Drop(ai, path[1])
    ELSE IF path[1] \in DOMAIN ai
         THEN Put(ai, path[1], PyDict(Drop(ai[path[1]].m, path[2])))
         ELSE ai

\* each base payload, whole and with one key set to a value, set to null or removed
Variants(base) ==
    {base}
    \cup UNION {{PutAt(base, path, v) : v \in Candidates(path) \cup {PyNone}} :
                    path \in Paths}
    \cup {DropAt(base, path) : path \in Paths}

Payloads == UNION {Variants(b) : b \in {EmptyPayload, CompletePayload,
                                        get_mock_response(350000)}}

-----------------------------------------------------------------------------
(* EvaluatorService.evaluate.  settings is [ai_provider, api_key]: the     *)
(* provider chosen in __init__ and whether its API key is set.             *)

NoRequest == [producto |-> <<>>, precio_publicado |-> 0, descripcion |-> PyNone]
NotEvaluated == [kind |-> "none", value |-> <<>>, exc |-> "", log |-> <<>>]
NoResponse == [status |-> 0, body |-> <<>>]

\* config.py: ai_provider defaults to "groq"; here with its key set
DefaultSettings == [ai_provider |-> "groq", api_key |-> TRUE]

EvalIdle(conf) ==
    /\ settings = conf
    /\ epc = "idle"
    /\ request = NoRequest
    /\ market_data = empty_stats
    /\ ai_result = EmptyPayload
    /\ evaluation = NotEvaluated
    /\ events = <<>>
    /\ api_reply = <<>>
    /\ http = NoResponse

\* the keyword arguments of the evaluate_deal call at lines 79-85
judge_kwargs(req, md) ==
    [producto |-> req.producto, precio |-> req.precio_publicado,
     descripcion |-> req.descripcion, precios_referencia |-> "self.reference_prices",
     market_data |-> md]

\* what the provider's API did: raised, or answered with a text that is
\* JSON for parsed[1] or no JSON at all
ApiError == [raises |-> TRUE, parsed |-> <<>>]
NotJson == [raises |-> FALSE, parsed |-> <<>>]
Json(payload) == [raises |-> FALSE, parsed |-> <<payload>>]

groq_except_mock(kwargs) == Returns(get_mock_response(kwargs.precio))

\* except Exception as e: raise ValueError(f"Error llamando a Groq: {e}"),
\* around both the API call and _parse_json
groq_except(kwargs) == Raises("ValueError")

\* GroqClient.evaluate_deal(**kwargs)
groq_evaluate_deal(conf, kwargs, reply) ==
    IF ~conf.api_key THEN Returns(get_mock_response(kwargs.precio))
    ELSE IF reply.raises \/ reply.parsed = <<>> THEN groq_except(kwargs)
    ELSE Returns(reply.parsed[1])

\* GeminiClient.evaluate_deal(**kwargs): its parameters are producto,
\* precio, descripcion and precios_referencia
GeminiParams == {"producto", "precio", "descripcion", "precios_referencia"}

gemini_evaluate_deal(conf, kwargs, reply) ==
    IF ~(DOMAIN kwargs \subseteq GeminiParams) THEN Raises("TypeError")
    ELSE IF ~conf.api_key THEN Returns(get_mock_response(kwargs.precio))
    ELSE IF reply.raises \/ reply.parsed = <<>> THEN Raises("ValueError")
    ELSE Returns(reply.parsed[1])

\* whether evaluate_deal reaches the provider's API: the call binds its
\* arguments and the client was built with a key
api_called(conf, kwargs) ==
    /\ conf.api_key
    /\ conf.ai_provider # "groq" => DOMAIN kwargs \subseteq GeminiParams

\* self.client.evaluate_deal(**kwargs)
evaluate_deal(conf, kwargs, reply) ==
    IF conf.ai_provider = "groq" THEN groq_evaluate_deal(conf, kwargs, reply)
    ELSE gemini_evaluate_deal(conf, kwargs, reply)

\* evaluate(request) begins
Evaluate(req) ==
    /\ epc = "idle"
    /\ epc' = "fetching"
    /\ request' = req
    /\ events' = <<>>
    /\ api_reply' = <<>>
    /\ http' = NoResponse
    /\ UNCHANGED <<now, cache, callVars, last, settings, market_data, ai_result,
                   evaluation, input, output>>

\* line 76 returns and lines 79-85 run: fetch_market_data gave its value
\* to evaluate, which calls the client; a raise ends evaluate
Judge(p, reply) ==
    /\ epc = "fetching"
    /\ pc[p] = "done"
    /\ product_name[p] = request.producto
    /\ LET md == result[p].value
           kwargs == judge_kwargs(request, md)
           c == evaluate_deal(settings, kwargs, reply)
           fetched == [op |-> "fetch_market_data", args |-> <<request.producto>>]
           judged == [op |-> "evaluate_deal", args |-> <<kwargs>>]
       IN  /\ market_data' = md
           /\ api_reply' = IF api_called(settings, kwargs) THEN <<reply>> ELSE <<>>
           /\ IF c.kind = "raise"
              THEN /\ epc' = "done"
                   /\ evaluation' = c
                   /\ events' = IF c.exc = "TypeError" THEN events \o <<fetched>>
                                ELSE events \o <<fetched, judged>>
                   /\ UNCHANGED ai_result
              ELSE /\ epc' = "normalizing"
                   /\ ai_result' = c.value
                   /\ events' = events \o <<fetched, judged>>
                   /\ UNCHANGED evaluation
    /\ UNCHANGED <<now, cache, callVars, last, settings, request, http, input,
                   output>>

\* line 88: return self._build_response(ai_result)
Normalize ==
    /\ epc = "normalizing"
    /\ epc' = "done"
    /\ evaluation' = build_response(ai_result)
    /\ events' = events \o <<[op |-> "_build_response", args |-> <<ai_result>>]>>
    /\ UNCHANGED <<now, cache, callVars, last, settings, request, market_data,
                   ai_result, api_reply, http, input, output>>

\* pydantic's ValidationError is a ValueError
ValueErrors == {"ValueError", "ValidationError"}

route_500_always(c) == [status |-> 500, body |-> <<>>]

\* routes/evaluate.py: except ValueError -> 422, except Exception -> 500
route_except(c) ==
    IF c.exc \in ValueErrors THEN [status |-> 422, body |-> <<>>]
    ELSE [status |-> 500, body |-> <<>>]

\* the route handler around evaluator.evaluate(request)
route_evaluate(c) ==
    IF c.kind = "return" THEN [status |-> 200, body |-> <<c.value>>]
    ELSE route_except(c)

\* evaluate ended; the route answers the HTTP request
Respond ==
    /\ epc = "done"
    /\ epc' = "responded"
    /\ http' = route_evaluate(evaluation)
    /\ UNCHANGED <<now, cache, callVars, last, settings, request, market_data,
                   ai_result, evaluation, events, api_reply, input, output>>

-----------------------------------------------------------------------------
(* _parse_json.  json.loads over objects, strings without escapes and      *)
(* unsigned integers; a parsed object's keys are its key strings.           *)

\* str.find(ch) and str.rfind(ch): 0-based, -1 when absent
find(text, ch) ==
    IF \E i \in 1..Len(text) : text[i] = ch
    THEN (CHOOSE i \in 1..Len(text) :
              text[i] = ch /\ \A j \in 1..(i - 1) : text[j] # ch) - 1
    ELSE -1

rfind_first(text, ch) == find(text, ch)

rfind(text, ch) ==
    IF \E i \in 1..Len(text) : text[i] = ch
    THEN (CHOOSE i \in 1..Len(text) :
              text[i] = ch /\ \A j \in (i + 1)..Len(text) : text[j] # ch) - 1
    ELSE -1

\* text[start:end] for start, end >= 0
Slice(text, start, end) == SubSeq(text, start + 1, end)

Parsed(v, rest) == [ok |-> TRUE, value |-> v, rest |-> rest]
NotParsed == [ok |-> FALSE, value |-> PyNone, rest |-> <<>>]

JsonDigits == {DigitChar(k) : k \in 0..9}
DigitValue(c) == CHOOSE k \in 0..9 : DigitChar(k) = c

RECURSIVE skip_ws(_)
skip_ws(s) == IF s # <<>> /\ IsSpace(Head(s)) THEN skip_ws(Tail(s)) ELSE s

\* s begins after the opening quote
scan_string(s) ==
    LET close == find(s, "\"")
    IN  IF close = -1 THEN NotParsed
        ELSE Parsed(PyStr(Slice(s, 0, close)), Slice(s, close + 1, Len(s)))

RECURSIVE scan_number(_, _)
scan_number(s, n) ==
    IF s # <<>> /\ Head(s) \in JsonDigits
    THEN scan_number(Tail(s), 10 * n + DigitValue(Head(s)))
    ELSE Parsed(PyInt(n), s)

RECURSIVE parse_value(_)
RECURSIVE parse_pairs(_, _)

\* s begins at a key of an object whose members so far are m
parse_pairs(s0, m) ==
    LET s == skip_ws(s0)
    IN  IF s = <<>> \/ Head(s) # "\"" THEN NotParsed
        ELSE LET key == scan_string(Tail(s))
                 colon == skip_ws(key.rest)
             IN  IF ~key.ok \/ colon = <<>> \/ Head(colon) # ":" THEN NotParsed
                 ELSE LET v == parse_value(Tail(colon))
                          next == skip_ws(v.rest)
                          members == Put(m, key.value.s, v.value)
                      IN  IF ~v.ok \/ next = <<>> THEN NotParsed
                          ELSE IF Head(next) = "," THEN parse_pairs(Tail(next), members)
                          ELSE IF Head(next) = "}" THEN Parsed(PyDict(members), Tail(next))
                          ELSE NotParsed

parse_value(s0) ==
    LET s == skip_ws(s0)
    IN  IF s = <<>> THEN NotParsed
        ELSE IF Head(s) = "{"
             THEN LET inner == skip_ws(Tail(s))
                  IN  IF inner # <<>> /\ Head(inner) = "}"
                      THEN Parsed(PyDict(NoDict), Tail(inner))
                      ELSE parse_pairs(inner, NoDict)
        ELSE IF Head(s) = "\"" THEN scan_string(Tail(s))
        ELSE IF Head(s) = "0" THEN Parsed(PyInt(0), Tail(s))
        ELSE IF Head(s) \in JsonDigits THEN scan_number(s, 0)
        ELSE NotParsed

\* json.loads(text): one value and nothing but whitespace after it
json_loads(text) ==
    LET v == parse_value(text)
    IN  IF v.ok /\ skip_ws(v.rest) = <<>> THEN Returns(v.value)
        ELSE Raises("JSONDecodeError")

\* GroqClient._parse_json
groq_parse_json(text) ==
    LET start == find(text, "{")
        end == rfind(text, "}") + 1
        c == IF start # -1 /\ end # 0 THEN json_loads(Slice(text, start, end))
             ELSE json_loads(text)
    IN  IF c.kind = "raise" THEN Raises("ValueError") ELSE c

\* str.strip()
RECURSIVE rstrip(_)
rstrip(s) == IF s # <<>> /\ IsSpace(s[Len(s)]) THEN rstrip(SubSeq(s, 1, Len(s) - 1)) ELSE s
strip(s) == rstrip(skip_ws(s))

startswith(s, prefix) == Len(s) >= Len(prefix) /\ SubSeq(s, 1, Len(prefix)) = prefix

\* the code fence of three backquotes, held as one element of a text
Fence == <<"FENCE">>

\* the first index at or after i where the fence begins, or Len(s) + 1
RECURSIVE fence_at(_, _)
fence_at(s, i) ==
    IF i > Len(s) THEN Len(s) + 1
    ELSE IF startswith(SubSeq(s, i, Len(s)), Fence) THEN i
    ELSE fence_at(s, i + 1)

\* text.split(fence)[1] for a text that starts with the fence
after_fence(s) == SubSeq(s, 2, fence_at(s, 2) - 1)

\* ClaudeClient._parse_json
claude_parse_json(text0) ==
    LET stripped == strip(text0)
        code == IF startswith(stripped, Fence) THEN after_fence(stripped) ELSE stripped
        text == IF startswith(stripped, Fence) /\ startswith(code, <<"j", "s", "o", "n">>)
                THEN Slice(code, 4, Len(code)) ELSE code
        start == find(text, "{")
        end == rfind(text, "}") + 1
    IN  IF start = -1 \/ end = 0 THEN Raises("JSONDecodeError")
        ELSE json_loads(Slice(text, start, end))

\* reply texts: prose, then an object or something that is none, then
\* trailing text
Proses == {<<>>, <<"o", "k", ":", " ">>, <<"FENCE", "j", "s", "o", "n", " ">>}

ObjA == <<"{", "\"", "a", "\"", ":", "1", "}">>
ObjB == <<"{", "\"", "b", "\"", ":", "2", "}">>
ObjNested == <<"{", "\"", "a", "\"", ":", " ", "{", "\"", "b", "\"", ":", "1", "0", "}", ",",
               "\"", "c", "\"", ":", "\"", "x", "\"", "}">>

Objects == {<<"{", "}">>, ObjA, ObjNested}

NoObjects == {<<>>, <<"n", "o">>, <<"1", "2">>, <<"{", "\"", "a", "\"", ":", "}">>,
              <<"{", "\"", "a", "\"", ":", "1">>}

Trailings == {<<>>, <<" ", "o", "k">>, Fence, <<" ", "{">>, <<"}">>,
              <<" ", "s", "e", "e", " ", "{", "x", "}">>, <<" ">> \o ObjB}

ReplyTexts == {[prose |-> a, object |-> b, trailing |-> c] :
                  a \in Proses, b \in Objects \cup NoObjects, c \in Trailings}

TextOf(reply) == reply.prose \o reply.object \o reply.trailing

-----------------------------------------------------------------------------
(* Specifications *)

InitClient(C) ==
    /\ now = 0
    /\ cache = [k \in {} |-> <<>>]
    /\ pc = [p \in C |-> "idle"]
    /\ product_name = [p \in C |-> <<>>]
    /\ clean_q = [p \in C |-> <<>>]
    /\ cached = [p \in C |-> <<>>]
    /\ prices = [p \in C |-> <<>>]
    /\ prices_clean = [p \in C |-> <<>>]
    /\ result = [p \in C |-> NotEnded]
    /\ trace = [p \in C |-> <<>>]
    /\ response = [p \in C |-> "none"]
    /\ web_results = [p \in C |-> NoSearch]
    /\ hit = [p \in C |-> FALSE]
    /\ startedAt = [p \in C |-> 0]
    /\ endedAt = [p \in C |-> 0]
    /\ last = NoCall

Init ==
    /\ InitClient({1})
    /\ EvalIdle(DefaultSettings)
    /\ input = <<>>
    /\ output = <<>>

\* the client used by one caller at a time, with the clock running
Next ==
    \/ \E p \in Callers : pc[p] = "idle" /\ \E q \in Queries : Call(p, q)
    \/ \E p \in Callers : TransportError(p)
    \/ \E p \in Callers : pc[p] = "awaiting" /\ \E web \in FewWebs : Forbidden(p, web)
    \/ \E p \in Callers : HttpError(p)
    \/ \E p \in Callers : MalformedBody(p)
    \/ \E p \in Callers : pc[p] = "awaiting" /\ \E web \in FewWebs : NoResults(p, web)
    \/ \E p \in Callers : pc[p] = "awaiting" /\ \E items \in FewBodies : Listings(p, items)
    \/ \E p \in Callers : Returned(p)
    \/ Tick

Spec == Init /\ [][Next]_vars

\* one call on a new client, over every response of the two sources
NextData ==
    \/ \E p \in Callers : Call(p, QC)
    \/ \E p \in Callers : TransportError(p)
    \/ \E p \in Callers : pc[p] = "awaiting" /\ \E web \in Webs : Forbidden(p, web)
    \/ \E p \in Callers : HttpError(p)
    \/ \E p \in Callers : MalformedBody(p)
    \/ \E p \in Callers : pc[p] = "awaiting" /\ \E web \in Webs : NoResults(p, web)
    \/ \E p \in Callers : pc[p] = "awaiting" /\ \E items \in Bodies : Listings(p, items)

SpecData == Init /\ [][NextData]_vars

\* one call on a new client, over every query
NextQuery ==
    \/ \E p \in Callers : pc[p] = "idle" /\ \E q \in TokenQueries : Call(p, q)
    \/ \E p \in Callers : TransportError(p)
    \/ \E p \in Callers : pc[p] = "awaiting" /\ \E web \in FewWebs : Forbidden(p, web)
    \/ \E p \in Callers : HttpError(p)
    \/ \E p \in Callers : MalformedBody(p)
    \/ \E p \in Callers : pc[p] = "awaiting" /\ \E web \in FewWebs : NoResults(p, web)
    \/ \E p \in Callers : pc[p] = "awaiting" /\ \E items \in FewBodies : Listings(p, items)

SpecQuery == Init /\ [][NextQuery]_vars

\* _filter_outliers applied to every price list, of small prices and of
\* prices from 2^53 on
WideOffsets == {0, 1, 2, 3, 5}

FilterInputs ==
    {[wide |-> FALSE, prices |-> ps] : ps \in PriceLists}
        \cup {[wide |-> TRUE, prices |-> os] : os \in SeqsUpTo(WideOffsets, MaxLen)}

iqr_step(in) ==
    IF in.wide THEN IqrFilteredWide(in.prices) ELSE IqrFiltered(in.prices)

filter_outliers_of(in) ==
    IF in.wide THEN filter_outliers_wide(in.prices) ELSE filter_outliers(in.prices)

InitFilter ==
    /\ InitClient({1})
    /\ EvalIdle(DefaultSettings)
    /\ input \in FilterInputs
    /\ output = <<>>

ApplyFilter ==
    /\ output = <<>>
    /\ output' = <<filter_outliers_of(input)>>
    /\ UNCHANGED <<now, cache, callVars, last, evalVars, input>>

SpecFilter == InitFilter /\ [][ApplyFilter]_vars

\* _build_response applied to every payload
InitBuild ==
    /\ InitClient({1})
    /\ EvalIdle(DefaultSettings)
    /\ input \in Payloads
    /\ output = <<>>

ApplyBuild ==
    /\ output = <<>>
    /\ output' = <<build_response(input)>>
    /\ UNCHANGED <<now, cache, callVars, last, evalVars, input>>

SpecBuild == InitBuild /\ [][ApplyBuild]_vars

\* one evaluate call on a new service, for each provider with and without
\* its key, over the answers of the sources and of the provider's API
Requests ==
    {[producto |-> QC, precio_publicado |-> 350000, descripcion |-> PyNone],
     [producto |-> QB, precio_publicado |-> 6000, descripcion |-> PyStr(<<"o","k">>)]}

SettingsSet == {[ai_provider |-> a, api_key |-> k] : a \in {"groq", "gemini"},
                                                     k \in BOOLEAN}

Replies ==
    {ApiError, NotJson, Json(EmptyPayload), Json(CompletePayload),
     Json(PutAt(CompletePayload, <<"recomendacion", "decision">>, PyStr(banana)))}

InitEval ==
    /\ InitClient({1})
    /\ \E conf \in SettingsSet : EvalIdle(conf)
    /\ input = <<>>
    /\ output = <<>>

NextEval ==
    \/ \E req \in Requests : Evaluate(req)
    \/ \E p \in Callers : epc = "fetching" /\ Call(p, request.producto)
    \/ \E p \in Callers : TransportError(p)
    \/ \E p \in Callers : pc[p] = "awaiting" /\ \E web \in FewWebs : Forbidden(p, web)
    \/ \E p \in Callers : HttpError(p)
    \/ \E p \in Callers : MalformedBody(p)
    \/ \E p \in Callers : pc[p] = "awaiting" /\ \E web \in FewWebs : NoResults(p, web)
    \/ \E p \in Callers : pc[p] = "awaiting" /\ \E items \in FewBodies : Listings(p, items)
    \/ \E p \in Callers : \E reply \in Replies : Judge(p, reply)
    \/ Normalize
    \/ Respond

SpecEval == InitEval /\ [][NextEval]_vars

\* the two _parse_json applied to every reply text
InitParse ==
    /\ InitClient({1})
    /\ EvalIdle(DefaultSettings)
    /\ input \in ReplyTexts
    /\ output = <<>>

ApplyParse ==
    /\ output = <<>>
    /\ output' = <<groq_parse_json(TextOf(input)), claude_parse_json(TextOf(input))>>
    /\ UNCHANGED <<now, cache, callVars, last, evalVars, input>>

SpecParse == InitParse /\ [][ApplyParse]_vars

\* two calls on one client, interleaved at their awaited request
InitRace ==
    /\ InitClient({1, 2})
    /\ EvalIdle(DefaultSettings)
    /\ input = <<>>
    /\ output = <<>>

NextRace ==
    \/ \E p \in Callers : pc[p] = "idle" /\ \E q \in Queries : Call(p, q)
    \/ \E p \in Callers : TransportError(p)
    \/ \E p \in Callers : pc[p] = "awaiting" /\ \E web \in FewWebs : Forbidden(p, web)
    \/ \E p \in Callers : HttpError(p)
    \/ \E p \in Callers : MalformedBody(p)
    \/ \E p \in Callers : pc[p] = "awaiting" /\ \E web \in FewWebs : NoResults(p, web)
    \/ \E p \in Callers : pc[p] = "awaiting" /\ \E items \in FewBodies : Listings(p, items)
    \/ Tick

SpecRace == InitRace /\ [][NextRace]_vars

-----------------------------------------------------------------------------
(* Properties of fetch_market_data *)

IsSentinel(v) ==
    /\ v.count = 0
    /\ v.min = 0 /\ v.max = 0 /\ v.avg = 0 /\ v.median = 0
    /\ v.source = "N/A"
    /\ "error" \in DOMAIN v
    /\ v.error # ""

ContactedSecondary(p) == \E i \in 1..Len(trace[p]) : trace[p][i].src = "secondary"

\* C1: a call never raises, whatever the two sources do; it returns a stats
\* value, and when no price was available for the statistics the value is
\* the empty sentinel: count 0, min = max = avg = median = 0, source "N/A",
\* a non-empty error string.
C1_NeverRaises ==
    \A p \in Callers :
        pc[p] = "done" =>
            /\ result[p].kind = "return"
            /\ result[p].value.count >= 0
            /\ (prices_clean[p] = <<>> /\ ~hit[p]) => IsSentinel(result[p].value)
            /\ result[p].value.count = 0 => IsSentinel(result[p].value)

C1_Witness ==
    \E p \in Callers :
        /\ pc[p] = "done"
        /\ ContactedSecondary(p)
        /\ prices[p] = <<>>
        /\ result[p].value.count = 0

\* C2: on a cache miss, whenever the primary source gave no usable prices
\* (whatever the reason), the secondary source was queried before the call
\* returned.
C2_SecondaryAlwaysTried ==
    \A p \in Callers :
        (pc[p] = "done" /\ ~hit[p] /\ result[p].value.source # PRIMARY)
            => ContactedSecondary(p)

\* the second of two calls with the same query, begun within the TTL of the
\* first one's end
SecondOfTwo(p) ==
    /\ pc[p] = "done"
    /\ last.valid
    /\ last.q = product_name[p]
    /\ startedAt[p] - last.endedAt < CACHE_TTL

C4_CachedOnSuccess ==
    \A p \in Callers :
        (pc[p] = "done" /\ result[p].kind = "return" /\ result[p].value.count > 0)
            => /\ clean_q[p] \in DOMAIN cache
               /\ cache[clean_q[p]].data = result[p].value

\* C5: freshness is decided when the cache is read: with an entry for the
\* normalized key younger than one hour the call returns exactly the stored
\* value and contacts no source; with an older entry or none it sends a
\* request to the primary source.  The key is the normalized query, so
\* queries with one normal form share the entry.
C5_ReadStep(p) ==
    LET key == SearchTerm(product_name'[p])
        fresh == key \in DOMAIN cache /\ now - cache[key].ts < CACHE_TTL
    IN  (pc[p] = "idle" /\ pc'[p] # "idle") =>
            IF fresh
            THEN /\ pc'[p] = "done"
                 /\ result'[p] = Return(cache[key].data)
                 /\ trace'[p] = <<>>
                 /\ cache' = cache
            ELSE /\ pc'[p] = "awaiting"
                 /\ trace'[p] = <<[src |-> "primary", q |-> key]>>

C5_FreshnessAtRead == [][\A p \in Callers : C5_ReadStep(p)]_vars

\* a hit on an entry one tick old that a call with another query stored
C5_Witness ==
    \E p \in Callers :
        /\ pc[p] = "done" /\ hit[p]
        /\ startedAt[p] > cached[p][1].ts
        /\ last.valid /\ last.q # product_name[p] /\ last.calls = 1
        /\ SearchTerm(last.q) = clean_q[p]
        /\ last.source = PRIMARY
        /\ last.endedAt = cached[p][1].ts
        /\ result[p].value = cached[p][1].data

\* C6: when normalization leaves fewer than 3 characters, the original query
\* is the search term and the cache key; so no query shorter than 3
\* characters is sent to a source unless the original is that short.
C6_ShortQueryReverts ==
    \A p \in Callers :
        pc[p] # "idle" =>
            LET Q == product_name[p]
            IN  /\ Len(clean_query(Q)) < 3 =>
                    /\ clean_q[p] = Q
                    /\ \A i \in 1..Len(trace[p]) : trace[p][i].q = Q
                    /\ DOMAIN cache \subseteq {Q}
                /\ \A i \in 1..Len(trace[p]) :
                    Len(trace[p][i].q) < 3 => Len(Q) < 3

C6_Witness ==
    \E p \in Callers :
        /\ pc[p] = "done"
        /\ clean_query(product_name[p]) # <<>>
        /\ Len(clean_query(product_name[p])) < 3
        /\ Len(product_name[p]) >= 3
        /\ product_name[p] \in DOMAIN cache

StopWordSet == {stop_words[k] : k \in 1..Len(stop_words)}

\* the maximal runs of non-space characters of s
IsWordOf(s, i, j) ==
    /\ i <= j
    /\ \A k \in i..j : s[k] # " "
    /\ (i = 1 \/ s[i - 1] = " ")
    /\ (j = Len(s) \/ s[j + 1] = " ")

WellCleaned(s) ==
    /\ \A i \in 1..Len(s) : IsAlnum(s[i]) \/ s[i] = " "
    /\ s # <<>> => s[1] # " " /\ s[Len(s)] # " "
    /\ \A i \in 1..(Len(s) - 1) : ~(s[i] = " " /\ s[i + 1] = " ")
    /\ \A i, j \in 1..Len(s) : IsWordOf(s, i, j) => SubSeq(s, i, j) \notin StopWordSet

\* C7: the output of _clean_query holds no stop word as a whole word, only
\* alphanumeric characters and single spaces, and no leading, trailing or
\* repeated whitespace.
C7_CleanQueryOutput ==
    \A p \in Callers :
        pc[p] # "idle" => WellCleaned(clean_query(product_name[p]))

-----------------------------------------------------------------------------
(* Properties of _filter_outliers *)

\* the k-th smallest element of ps, counting from 0, without sorting
OrderStat(ps, k) ==
    CHOOSE v \in {ps[i] : i \in 1..Len(ps)} :
        /\ Cardinality({i \in 1..Len(ps) : ps[i] < v}) <= k
        /\ Cardinality({i \in 1..Len(ps) : ps[i] <= v}) > k

ReferenceFilter(ps) ==
    IF Len(ps) < 4 THEN ps
    ELSE LET Q1 == OrderStat(ps, Len(ps) \div 4)
             Q3 == OrderStat(ps, (3 * Len(ps)) \div 4)
             IQR == Q3 - Q1
         IN  SelectSeq(ps, LAMBDA x : 2 * Q1 - 3 * IQR <= 2 * x /\ 2 * x <= 2 * Q3 + 3 * IQR)

C10_PositiveObservations ==
    \A p \in Callers :
        (pc[p] = "done" /\ result[p].value.count > 0) =>
            /\ result[p].value.min > 0
            /\ \A i \in 1..Len(prices_clean[p]) : prices_clean[p][i] > 0

-----------------------------------------------------------------------------
(* Properties of the statistics *)

IsMinOf(m, ps) == (\E i \in 1..Len(ps) : ps[i] = m) /\ \A i \in 1..Len(ps) : m <= ps[i]
IsMaxOf(m, ps) == (\E i \in 1..Len(ps) : ps[i] = m) /\ \A i \in 1..Len(ps) : ps[i] <= m

\* a is the mean of the non-negative ps, truncated to an integer
IsMeanOf(a, ps) == a * Len(ps) <= Sum(ps) /\ Sum(ps) < (a + 1) * Len(ps)

\* m is the median of the non-negative ps, truncated to an integer
IsMedianOf(m, ps) ==
    LET n == Len(ps)
    IN  IF n % 2 = 1 THEN m = OrderStat(ps, n \div 2)
        ELSE LET two == OrderStat(ps, n \div 2 - 1) + OrderStat(ps, n \div 2)
             IN  2 * m <= two /\ two < 2 * m + 2

\* x lies above Q3 + 1.5 IQR of the four or more prices ps
HighOutlier(x, ps) ==
    /\ Len(ps) >= 4
    /\ LET Q1 == OrderStat(ps, Len(ps) \div 4)
           Q3 == OrderStat(ps, (3 * Len(ps)) \div 4)
       IN  2 * x > 2 * Q3 + 3 * (Q3 - Q1)

HighOutliers(ps) == {i \in 1..Len(ps) : HighOutlier(ps[i], ps)}

\* C11: when the primary source returns local-currency listings, the
\* returned statistics have the primary source's name and are computed
\* over exactly P' = _filter_outliers(prices): count = |P'|, min and max
\* the least and greatest of P', avg and median its mean and median
\* truncated to integers; a price above Q3 + 1.5 IQR is counted neither in
\* count nor in max.
C11_PrimaryStatistics ==
    \A p \in Callers :
        response[p] = "listings" =>
            LET P == filter_outliers(prices[p])
                v == result[p].value
            IN  /\ result[p].kind = "return"
                /\ v.source = PRIMARY
                /\ P # <<>>
                /\ v.count = Len(P)
                /\ IsMinOf(v.min, P)
                /\ IsMaxOf(v.max, P)
                /\ IsMeanOf(v.avg, P)
                /\ IsMedianOf(v.median, P)
                /\ v.count <= Len(prices[p]) - Cardinality(HighOutliers(prices[p]))
                /\ \A i \in HighOutliers(prices[p]) : v.max < prices[p][i]

\* five listings, one of them a high outlier
C11_Witness ==
    \E p \in Callers :
        /\ response[p] = "listings"
        /\ Len(prices[p]) = MaxItems
        /\ Cardinality(HighOutliers(prices[p])) = 1
        /\ result[p].value.count = Len(prices[p]) - 1
        /\ result[p].value.max < seq_max(prices[p])

Ascending(s) == \A i \in 1..(Len(s) - 1) : s[i] <= s[i + 1]

\* C12: in every statistics value with count > 0 the sample is the
\* ascending sequence of the up to 5 cheapest observations the statistics
\* describe: its length is min(5, count), its first element is min, and
\* every element lies between min and max.
C12_SampleOfDescribed ==
    \A p \in Callers :
        (pc[p] = "done" /\ result[p].value.count > 0) =>
            LET v == result[p].value
                s == v.prices_sample
            IN  /\ Ascending(s)
                /\ Len(s) = (IF v.count < 5 THEN v.count ELSE 5)
                /\ s[1] = v.min
                /\ \A i \in 1..Len(s) : v.min <= s[i] /\ s[i] <= v.max

\* the amounts of the results that mention no accessory, in order
RECURSIVE MinedAmounts(_)
MinedAmounts(rs) ==
    IF rs = <<>> THEN <<>>
    ELSE (IF Head(rs).accessory THEN <<>> ELSE Head(rs).amounts)
         \o MinedAmounts(Tail(rs))

Survivors(web) ==
    LET kept == SelectSeq(MinedAmounts(web.results), LAMBDA a : a > 5000)
    IN  IF kept = <<>> THEN <<>> ELSE filter_outliers(kept)

\* C13: when the primary source returns zero results the returned value
\* comes from the secondary source: amounts of results that mention an
\* accessory and amounts <= 5000 never contribute, the remaining amounts
\* are outlier-filtered, and if any survive the value has the secondary
\* source's name, count = the number of survivors and min > 5000.
C13_SecondaryStatistics ==
    \A p \in Callers :
        response[p] = "no results" =>
            /\ ContactedSecondary(p)
            /\ web_results[p] # <<>>
            /\ result[p].kind = "return"
            /\ LET web == web_results[p][1]
                   S == Survivors(web)
                   v == result[p].value
               IN  /\ prices_clean[p] = (IF web.raises THEN <<>> ELSE S)
                   /\ (web.raises \/ S = <<>>) => IsSentinel(v)
                   /\ (~web.raises /\ S # <<>>) =>
                          /\ v.source = SECONDARY
                          /\ v.count = Len(S)
                          /\ v.min > 5000
                          /\ IsMinOf(v.min, S)
                          /\ IsMaxOf(v.max, S)

\* an accessory result and an amount of 5000 are left out, one amount counts
C13_Witness ==
    \E p \in Callers :
        /\ response[p] = "no results"
        /\ web_results[p] # <<>>
        /\ LET rs == web_results[p][1].results
           IN  /\ Len(rs) = 2
               /\ rs[1].accessory /\ rs[1].amounts = <<350000>>
               /\ ~rs[2].accessory /\ rs[2].amounts = <<FLOOR, 6000>>
        /\ result[p].value.source = SECONDARY
        /\ result[p].value.count = 1
        /\ result[p].value.min = 6000

-----------------------------------------------------------------------------
(* Properties of _build_response *)

\* the value at a path, PyNone when the path is absent
At(ai, path) ==
    IF Len(path) = 1 THEN get1(ai, path[1])
    ELSE get1(get(ai, path[1], PyDict(NoDict)).m, path[2])

IsNullAt(ai, path) ==
    /\ path[1] \in DOMAIN ai
    /\ IF Len(path) = 1 THEN ai[path[1]].t = "null"
       ELSE /\ ai[path[1]].t = "dict"
            /\ path[2] \in DOMAIN ai[path[1]].m
            /\ ai[path[1]].m[path[2]].t = "null"

SchemaValid(r) ==
    /\ r.clasificacion.categoria \in Categoria
    /\ r.clasificacion.confianza \in 0..100
    /\ \A k \in DOMAIN Schema.evaluacion : r.evaluacion[k] \in 0..1000
    /\ r.recomendacion.decision \in Recomendacion
    /\ r.recomendacion.confianza \in 0..100
    /\ r.score_display # <<>> /\ r.decision_display # <<>> /\ r.margen_display # <<>>

\* C14: _build_response is total: for any mapping (empty, sections
\* missing, sections or leaves null, scores or confidences out of range,
\* an unknown category, a decision outside the vocabulary) it returns a
\* fully populated, schema-valid EvaluateResponse and never raises.
C14_BuildResponseTotal ==
    output # <<>> =>
        /\ output[1].kind = "return"
        /\ SchemaValid(output[1].value)

SameOutcome(a, b) ==
    /\ a.kind = b.kind
    /\ a.kind = "return" => a.value = b.value
    /\ a.kind = "raise" => a.exc = b.exc

\* C15: for every section and every leaf, _build_response gives the same
\* outcome when the field is present with value null as when it is absent.
C15_NullAsAbsent ==
    output # <<>> =>
        \A path \in Paths :
            IsNullAt(input, path) =>
                SameOutcome(output[1], build_response(DropAt(input, path)))

ConservativeDefaults == {PASAR, NEGOCIAR}

\* C16: for the empty mapping the result has every numeric field (prices,
\* discounts, the five sub-scores, the total score, margins, both
\* confidences) 0, every list empty, a conservative default decision and
\* non-empty display strings.
C16_EmptyMapping ==
    (output # <<>> /\ input = EmptyPayload) =>
        /\ output[1].kind = "return"
        /\ LET r == output[1].value
           IN  /\ \A k \in DOMAIN r.analisis_precio : r.analisis_precio[k] = 0
               /\ \A k \in DOMAIN r.evaluacion : r.evaluacion[k] = 0
               /\ r.proyeccion.precio_venta_esperado = 0
               /\ r.proyeccion.margen_bruto = 0
               /\ r.proyeccion.margen_porcentaje = 0
               /\ r.clasificacion.confianza = 0
               /\ r.recomendacion.confianza = 0
               /\ r.senales_positivas = <<>> /\ r.senales_negativas = <<>>
               /\ r.alertas = <<>> /\ r.recomendacion.acciones_sugeridas = <<>>
               /\ r.recomendacion.decision \in ConservativeDefaults
               /\ r.score_display # <<>> /\ r.decision_display # <<>>
               /\ r.margen_display # <<>>

LowerAlphabet == <<"a","b","c","d","e","f","g","h","i","j","k","l","m","n","o","p",
                   "q","r","s","t","u","v","w","x","y","z">>
UpperAlphabet == <<"A","B","C","D","E","F","G","H","I","J","K","L","M","N","O","P",
                   "Q","R","S","T","U","V","W","X","Y","Z">>

\* str.upper(), character by character
upper(s) ==
    [i \in 1..Len(s) |->
        IF \E j \in 1..Len(LowerAlphabet) : LowerAlphabet[j] = s[i]
        THEN UpperAlphabet[CHOOSE j \in 1..Len(LowerAlphabet) : LowerAlphabet[j] = s[i]]
        ELSE s[i]]

\* w in s
Contains(s, w) ==
    \E i \in 1..(Len(s) - Len(w) + 1) : SubSeq(s, i, i + Len(w) - 1) = w

ContainsAny(s, ws) == \E w \in ws : Contains(upper(s), w)

\* the ordered keyword rules, first match wins; AHORA is the synonym the
\* example 'COMPRAR AHORA' needs
KeywordRule(s) ==
    IF ContainsAny(s, {RISK, <<"A","L","E","R","T">>}) THEN ALERTA_RIESGO
    ELSE IF ContainsAny(s, {<<"N","O","W">>, <<"U","R","G","E","N","T">>,
                            <<"A","H","O","R","A">>}) THEN COMPRAR_YA
    ELSE IF ContainsAny(s, {<<"B","U","Y">>, COMPRAR}) THEN COMPRAR
    ELSE IF ContainsAny(s, {NEGOTIATE}) THEN NEGOCIAR
    ELSE PASAR

\* lines 101-104 ran: the three sections read there are dicts
SectionsReadable(ai) ==
    \A k \in {"evaluacion", "recomendacion", "proyeccion"} :
        get(ai, k, PyDict(NoDict)).t = "dict"

DecisionOf(ai) == get(get(ai, "recomendacion", PyDict(NoDict)).m, "decision", PyStr(PASAR))

LooseDecision(ai) ==
    /\ SectionsReadable(ai)
    /\ DecisionOf(ai).t = "str"
    /\ DecisionOf(ai).s \notin Recomendacion

\* C17: a decision string that is no exact enum value is resolved by the
\* ordered keyword rules, first match wins, without raising; 'COMPRAR
\* AHORA' resolves to COMPRAR_YA and 'banana' to PASAR.
C17_FuzzyKeywordRules ==
    (output # <<>> /\ LooseDecision(input)) =>
        /\ output[1].kind = "return" =>
               output[1].value.recomendacion.decision = KeywordRule(DecisionOf(input).s)
        /\ input \in Variants(EmptyPayload) => output[1].kind = "return"
        /\ KeywordRule(COMPRAR_AHORA) = COMPRAR_YA
        /\ KeywordRule(banana) = PASAR

\* C18: when fuzzy matching raises, resolution does not raise: the decision
\* is NEGOCIAR and a warning is logged; and that fallback is taken only
\* then, never for a string, which the keyword rules can always classify.
C18_FallbackOnlyOnError ==
    (output # <<>> /\ SectionsReadable(input)) =>
        LET decision == DecisionOf(input)
            tried_fuzzy == Recomendacion_call(decision).kind = "raise"
            fell_back == output[1].log = <<"warning">>
        IN  /\ (tried_fuzzy /\ from_fuzzy(decision).kind = "raise") =>
                   /\ fell_back
                   /\ output[1].kind = "return" =>
                          output[1].value.recomendacion.decision = NEGOCIAR
            /\ fell_back => decision.t # "str"

\* every section with every leaf, and the three lists, hold valid values
CompleteValid(ai) ==
    /\ \A s \in Sections :
          /\ At(ai, <<s>>).t = "dict"
          /\ \A k \in DOMAIN Schema[s] :
                LET v == At(ai, <<s, k>>)
                    kind == Schema[s][k]
                IN  CASE kind = "categoria" -> v.t = "str" /\ v.s \in Categoria
                      [] kind = "text" -> v.t = "str"
                      [] kind = "confianza" -> in_range(v, 0, 1)
                      [] kind = "int" -> v.t = "int"
                      [] kind = "ratio" -> IsNumber(v)
                      [] kind = "score" -> in_range(v, 0, 10)
                      [] kind = "decision" -> v.t = "str" /\ v.s \in Recomendacion
                      [] kind = "list" -> v.t = "list"
    /\ \A k \in SignalLists : At(ai, <<k>>).t = "list"

\* the leaf of the response is the value the payload gave
Carried(r, ai, s, k) ==
    LET v == At(ai, <<s, k>>)
        kind == Schema[s][k]
    IN  CASE kind \in {"categoria", "text", "decision"} -> r[s][k] = v.s
          [] kind = "int" -> r[s][k] = v.n
          [] kind \in {"confianza", "ratio", "score"} -> r[s][k] = Hundredths(v)
          [] kind = "list" -> r[s][k] = v.l

\* C19: a complete, schema-valid payload with an exact enum decision is
\* carried through unchanged, every score and confidence in its range
\* including 0; score_display is the total score at one decimal followed
\* by "/10" and decision_display contains the decision's name.
C19_CompletePayloadCarried ==
    (output # <<>> /\ CompleteValid(input)) =>
        /\ output[1].kind = "return"
        /\ LET r == output[1].value
           IN  /\ \A s \in Sections : \A k \in DOMAIN Schema[s] : Carried(r, input, s, k)
               /\ \A k \in SignalLists : r[k] = input[k].l
               /\ r.score_display
                     = format_1f(At(input, <<"evaluacion", "score_total">>)) \o <<"/","1","0">>
               /\ Contains(r.decision_display,
                           replace_underscores(r.recomendacion.decision))

-----------------------------------------------------------------------------
(* Properties of evaluate *)

\* C20: for each provider, groq or gemini, an evaluate call makes one
\* fetch_market_data call for the product text, then one judgment call
\* that receives the product text, the asking price, the description, the
\* reference-price table and the statistics just fetched, then normalizes
\* the judgment's payload and returns the result.
C20_EvaluateSequence ==
    epc = "done" =>
        /\ Len(events) >= 2
        /\ events[1] = [op |-> "fetch_market_data", args |-> <<request.producto>>]
        /\ events[2].op = "evaluate_deal"
        /\ events[2].args = <<judge_kwargs(request, result[1].value)>>
        /\ Len(events) = 2 => evaluation.exc = "ValueError"
        /\ Len(events) > 2 =>
              /\ Len(events) = 3
              /\ events[3] = [op |-> "_build_response", args |-> <<ai_result>>]
              /\ evaluation = build_response(ai_result)

\* the judgment calls evaluate made so far
JudgmentCalls == {i \in 1..Len(events) : events[i].op = "evaluate_deal"}

\* C21: when the sources give no market data, fetch_market_data still
\* returns (the count = 0 sentinel) and never raises into evaluate, and the
\* judgment is invoked exactly once, with that sentinel as its market
\* context.
C21_MarketDataNeverFails ==
    (epc \in {"normalizing", "done"} /\ market_data.count = 0) =>
        /\ result[1].kind = "return"
        /\ IsSentinel(market_data)
        /\ Cardinality(JudgmentCalls) = 1
        /\ \A i \in JudgmentCalls : events[i].args[1].market_data = market_data

\* the provider's API was called and the call failed: it raised, or its
\* reply held no parseable JSON object
JudgmentFailed ==
    /\ api_reply # <<>>
    /\ api_reply[1].raises \/ api_reply[1].parsed = <<>>

Normalizations == {i \in 1..Len(events) : events[i].op = "_build_response"}

\* C22: when the judgment call fails (the API raises, or the reply holds no
\* parseable JSON object), evaluate raises to its caller and returns no
\* result, the route answers with an error status, the judgment call was
\* made once and not retried, and no default payload is normalized.
C22_JudgmentFailureSurfaces ==
    (epc \in {"done", "responded"} /\ JudgmentFailed) =>
        /\ evaluation.kind = "raise"
        /\ Cardinality(JudgmentCalls) = 1
        /\ Normalizations = {}
        /\ ai_result = EmptyPayload
        /\ epc = "responded" => (http.status >= 400 /\ http.body = <<>>)

C22_Witness ==
    /\ epc = "responded"
    /\ api_reply = <<NotJson>>
    /\ evaluation.exc = "ValueError"
    /\ http.status = 422

\* what the caller of evaluate sees of a failure: the exception's type and
\* the status the route answers with
FailureKind(c) == <<c.exc, route_evaluate(c).status>>

\* C23: a transport failure of the judgment call (the API raises) surfaces
\* to the caller with an exception type or an HTTP status other than the
\* ones a malformed reply (text that is not JSON) surfaces with.
C23_FailureClassesDistinct ==
    (epc = "responded" /\ api_reply = <<ApiError>>) =>
        <<evaluation.exc, http.status>> #
            FailureKind(evaluate_deal(settings, judge_kwargs(request, market_data),
                                      NotJson))

\* C24: every result returned to the caller derives from a payload the
\* provider's API returned for this request: the API was called, replied
\* with a JSON object, and that object is what was normalized.
C24_NoFabricatedJudgment ==
    (epc = "responded" /\ http.status = 200) =>
        /\ api_reply # <<>>
        /\ api_reply[1].parsed # <<>>
        /\ ai_result = api_reply[1].parsed[1]

-----------------------------------------------------------------------------
(* Properties of _parse_json *)

\* a reply of the claimed form: prose without braces, then one well-formed
\* object, then any trailing text
ProseObjectTrailing(reply) ==
    /\ \A i \in 1..Len(reply.prose) : reply.prose[i] \notin {"{", "}"}
    /\ json_loads(reply.object).kind = "return"
    /\ json_loads(reply.object).value.t = "dict"

\* C25: for every reply of the form prose + one well-formed object +
\* trailing text (also trailing text that holds '{', '}' or a second
\* object), _parse_json returns the mapping of the first object.
C25_FirstBalancedObject ==
    (output # <<>> /\ ProseObjectTrailing(input)) =>
        /\ output[1] = json_loads(input.object)
        /\ output[2] = json_loads(input.object)

-----------------------------------------------------------------------------
(* Properties of the cache *)

StatsFields == {"source", "count", "min", "max", "avg", "median", "prices_sample",
                "timestamp"}

\* a complete statistics value of count > 0
CompleteStats(v) ==
    /\ DOMAIN v = StatsFields
    /\ v.count > 0
    /\ v.source # "N/A"
    /\ v.min <= v.median /\ v.median <= v.max
    /\ v.min <= v.avg /\ v.avg <= v.max
    /\ v.prices_sample # <<>>

CompleteEntry(entry) ==
    /\ DOMAIN entry = {"ts", "data"}
    /\ entry.ts \in 0..now
    /\ CompleteStats(entry.data)

\* a step that changes the cache is the write of one call: the value that
\* call returns, stored whole under that call's normalized key
SingleWrite(p) ==
    LET key == SearchTerm(product_name[p])
    IN  /\ pc[p] = "awaiting" /\ pc'[p] = "done"
        /\ result'[p].kind = "return"
        /\ DOMAIN cache' = DOMAIN cache \cup {key}
        /\ \A k \in DOMAIN cache \ {key} : cache'[k] = cache[k]
        /\ cache'[key] = [ts |-> now, data |-> result'[p].value]
        /\ CompleteStats(result'[p].value)

\* C26: under every interleaving of concurrent calls on one client, each
\* cache entry is a complete (storedAt, stats) pair with count > 0, written
\* by a single call under that call's normalized key; the sentinel and
\* partial values are never stored.
C26_CacheEntriesComplete ==
    /\ [](\A k \in DOMAIN cache : CompleteEntry(cache[k]))
    /\ [][cache' # cache => \E p \in Callers : SingleWrite(p)]_vars

\* two overlapping calls for one key both wrote; the later write is kept
C26_Witness ==
    /\ pc[1] = "done" /\ pc[2] = "done"
    /\ ~hit[1] /\ ~hit[2]
    /\ clean_q[1] = clean_q[2]
    /\ product_name[1] # product_name[2]
    /\ startedAt[2] <= endedAt[1] /\ startedAt[1] <= endedAt[2]
    /\ result[1].value.count > 0 /\ result[2].value.count > 0
    /\ result[1].value # result[2].value
    /\ endedAt[1] < endedAt[2]
    /\ clean_q[1] \in DOMAIN cache
    /\ cache[clean_q[1]] = [ts |-> endedAt[2], data |-> result[2].value]

-----------------------------------------------------------------------------
(* Properties of the source attempts *)

Attempts(p, src) == {i \in 1..Len(trace[p]) : trace[p][i].src = src}

\* C27: within one call each source is attempted at most once: one primary
\* request at most, one secondary search at most, the search only after
\* the primary request completed without usable prices (status 403 or no
\* results), and once the search completes the call has ended with stats
\* or the sentinel, contacting nothing more.
C27_SingleAttempt ==
    \A p \in Callers :
        /\ Cardinality(Attempts(p, "primary")) <= 1
        /\ Cardinality(Attempts(p, "secondary")) <= 1
        /\ pc[p] = "awaiting" => trace[p] = primary_request(clean_q[p])
        /\ \A i \in Attempts(p, "secondary") :
              /\ i = 2
              /\ trace[p][1].src = "primary"
              /\ response[p] \in {"403", "no results"}
              /\ pc[p] = "done"
              /\ result[p].kind = "return"
              /\ result[p].value.source = SECONDARY \/ IsSentinel(result[p].value)

C27_Witness ==
    \E p \in Callers :
        /\ pc[p] = "done"
        /\ Len(trace[p]) = 2
        /\ response[p] = "no results"
        /\ result[p].value.source = SECONDARY
        /\ last.valid /\ last.calls = 2

-----------------------------------------------------------------------------
(* Properties of the IQR step *)

Elements(s) == {s[i] : i \in 1..Len(s)}

\* on a list of at least 4 prices the IQR step keeps the elements equal to
\* Q1 and to Q3, so the above-5000 fallback is not taken
QuartilesKept(in) ==
    Len(in.prices) >= 4 =>
        /\ OrderStat(in.prices, Len(in.prices) \div 4) \in Elements(iqr_step(in))
        /\ OrderStat(in.prices, (3 * Len(in.prices)) \div 4) \in Elements(iqr_step(in))
        /\ iqr_step(in) # <<>>
        /\ output[1] = iqr_step(in)

\* C28 as stated: for every integer list of at least 4 prices the IQR step
\* keeps the elements equal to Q1 and to Q3, so it never removes every
\* price, the above-5000 fallback is never taken, and the filter's result
\* is non-empty for every non-empty input.
C28_IqrNeverEmpties ==
    output # <<>> =>
        /\ QuartilesKept(input)
        /\ input.prices # <<>> => output[1] # <<>>

\* C28 amended: the same, for lists of integers that floats hold exactly
\* (magnitude below 2^52).
C28_IqrKeepsQuartiles ==
    (output # <<>> /\ ~input.wide) =>
        /\ QuartilesKept(input)
        /\ input.prices # <<>> => output[1] # <<>>

\* the IQR step removed a price from a list with no price above 5000, where
\* the fallback would have left nothing
C28_Witness ==
    /\ output # <<>>
    /\ ~input.wide
    /\ Len(input.prices) >= 4
    /\ Len(output[1]) < Len(input.prices)
    /\ AboveFloor(input.prices) = <<>>
    /\ output[1] # <<>>

-----------------------------------------------------------------------------
(* Properties of the decision display *)

\* the display of a stored decision: its icon, a space, and its name with
\* underscores as spaces
DisplayOfStored(decision) ==
    <<decision_icons(decision), " ">> \o replace_underscores(decision)

\* C29: in every result of _build_response the decision_display agrees
\* with the stored decision: the icon mapped to recomendacion.decision and
\* that member's name with underscores as spaces, also when the decision
\* was resolved by the NEGOCIAR fallback (as for ERROR_CONFIG).
C29_DisplayAgreesWithDecision ==
    (output # <<>> /\ output[1].kind = "return") =>
        output[1].value.decision_display =
            DisplayOfStored(output[1].value.recomendacion.decision)

-----------------------------------------------------------------------------
(* Frame of the cache *)

\* the call p ends in this step, from a cache hit or with the sentinel
EndsWithoutData(p) ==
    /\ pc[p] # "done" /\ pc'[p] = "done"
    /\ hit'[p] \/ IsSentinel(result'[p].value)

\* C30: a call that returns the sentinel or is served from a cache hit
\* leaves the cache as it was: no entry added, removed or overwritten, a
\* stale entry keeping its value and its time; and no step removes a key.
C30_CacheFrame ==
    [][/\ \A p \in Callers : EndsWithoutData(p) => cache' = cache
       /\ DOMAIN cache \subseteq DOMAIN cache']_vars

\* a call found a stale entry, got the sentinel, and the entry is as it was
\* beside the entry of another key
C30_Witness ==
    \E p \in Callers :
        /\ pc[p] = "done" /\ ~hit[p]
        /\ cached[p] # <<>>
        /\ IsSentinel(result[p].value)
        /\ clean_q[p] \in DOMAIN cache
        /\ cache[clean_q[p]] = cached[p][1]
        /\ now - cache[clean_q[p]].ts >= CACHE_TTL
        /\ Cardinality(DOMAIN cache) >= 2

====
